---- MODULE Spec2Model ----
(***************************************************************************)
(* Model of miasm2/analysis/sandbox.py: the Sandbox orchestrator that      *)
(* composes an architecture capability with an OS-loader capability,       *)
(* bootstraps the guest stack and registers per ABI, and drives the run.   *)
(*                                                                         *)
(* Guest strings are sequences of byte values, option strings that are     *)
(* parsed as numbers are sequences of one-character strings, guest memory  *)
(* is a function from the written addresses to bytes.                      *)
(***************************************************************************)
EXTENDS Integers, Sequences, FiniteSets, TLC

VARIABLES
    variant,      \* the Sandbox_* class of the instance
    options,      \* the options namespace handed to the constructor
    image,        \* entry point declared by the file the loader reads
    phase,        \* "new" (allocated), "ready" (__init__ returned), "failed" (__init__ raised)
    entry_point,  \* self.entry_point
    argv,         \* self.argv
    envp,         \* self.envp
    SP,           \* jitter.cpu.ESP / RSP / SP
    LR,           \* jitter.cpu.LR
    mem,          \* jitter.vm: written guest bytes
    pushed,       \* every jitter.push_uintN_t issued by the sandbox, in order
    ptrs,         \* env_ptrs and argv_ptrs computed by the constructor
    breakpoints,  \* the engine's breakpoint table: set of (address, callback)
    bpLog,        \* addresses given to jitter.add_breakpoint, in call order
    inits,        \* how many times each capability initialiser ran
    trace,        \* engine / collaborator calls of the last operation, in order
    pc,           \* engine program counter
    run,          \* jitter.run
    last,         \* outcome of the last run() / call()
    ops,          \* number of run() / call() invocations so far
    fires,        \* how many times a breakpoint callback has fired
    callLog,      \* the argument tuples handed to prepare_cb, in call order
    logging,      \* jitter.jit.log_mn / log_regs / log_newbloc, log_func at INFO
    built,        \* sandboxes constructed so far from the options object
    parser,       \* the argument parser of the class, as built so far
    todo,         \* the add_argument calls parser construction still has to make
    methods,      \* the namespace of each OS module: API name -> implementation
    handlers,     \* the table each constructed sandbox gave to add_lib_handler
    customs       \* the custom_methods given to the first and the second sandbox

vars == <<variant, options, image, phase, entry_point, argv, envp, SP, LR, mem,
          pushed, ptrs, breakpoints, bpLog, inits, trace, pc, run, last, ops,
          fires, callLog, logging, built, parser, todo, methods, handlers,
          customs>>

----------------------------------------------------------------------------
(* Bounds of the model *)

MaxArgs == 1
MaxEnv == 2
MaxOps == 2

(* Program constants *)

None == -1
CALL_FINNISH_ADDR == 322419390
EXIT_SENTINEL == 322420463
X86_STACK_SIZE == 65536
X86_STACK_BASE == 1245184
ARM_STACK_SIZE == 1048576
ARM_STACK_BASE == 1048576

PROGRAM_PATH == <<46, 47, 112, 114, 111, 103, 114, 97, 109>>

----------------------------------------------------------------------------
(* The sandbox classes and the capabilities they inherit *)

Variants ==
    {"Win_x86_32", "Win_x86_64", "Linux_x86_32", "Linux_x86_64",
     "Linux_arml", "Linux_armb_str", "Linux_arml_str", "Linux_aarch64l"}

ArchOf(v) ==
    CASE v = "Win_x86_32" -> "x86_32"
      [] v = "Win_x86_64" -> "x86_64"
      [] v = "Linux_x86_32" -> "x86_32"
      [] v = "Linux_x86_64" -> "x86_64"
      [] v = "Linux_arml" -> "arml"
      [] v = "Linux_armb_str" -> "armb"
      [] v = "Linux_arml_str" -> "arml"
      [] v = "Linux_aarch64l" -> "aarch64l"

OSOf(v) ==
    CASE v \in {"Win_x86_32", "Win_x86_64"} -> "Win"
      [] v \in {"Linux_x86_32", "Linux_x86_64", "Linux_arml", "Linux_aarch64l"} -> "Linux"
      [] v \in {"Linux_armb_str", "Linux_arml_str"} -> "Linux_str"

StackTop(arch) ==
    IF arch \in {"x86_32", "x86_64"}
    THEN X86_STACK_BASE + X86_STACK_SIZE
    ELSE ARM_STACK_BASE + ARM_STACK_SIZE

----------------------------------------------------------------------------
(* int(s, 0) of Python 2 on a string of characters: 0x / 0o / 0b prefixes,  *)
(* a leading 0 means octal, otherwise decimal; Bad stands for ValueError.   *)

Bad == -2

DigitVal(c) ==
    CASE c = "0" -> 0 [] c = "1" -> 1 [] c = "2" -> 2 [] c = "3" -> 3
      [] c = "4" -> 4 [] c = "5" -> 5 [] c = "6" -> 6 [] c = "7" -> 7
      [] c = "8" -> 8 [] c = "9" -> 9 [] c = "a" -> 10 [] c = "b" -> 11
      [] c = "c" -> 12 [] c = "d" -> 13 [] c = "e" -> 14 [] c = "f" -> 15
      [] OTHER -> 99

RECURSIVE DigitsVal(_, _, _)
DigitsVal(s, base, acc) ==
    IF s = <<>> THEN acc
    ELSE IF DigitVal(Head(s)) >= base THEN Bad
    ELSE DigitsVal(Tail(s), base, acc * base + DigitVal(Head(s)))

ParseDigits(s, base) == IF s = <<>> THEN Bad ELSE DigitsVal(s, base, 0)

ParseInt(s) ==
    IF s = <<>> THEN Bad
    ELSE IF Head(s) = "0" /\ Len(s) >= 2
    THEN CASE s[2] = "x" -> ParseDigits(Tail(Tail(s)), 16)
           [] s[2] = "o" -> ParseDigits(Tail(Tail(s)), 8)
           [] s[2] = "b" -> ParseDigits(Tail(Tail(s)), 2)
           [] OTHER -> ParseDigits(Tail(s), 8)
    ELSE ParseDigits(s, 10)

(* Python truth value of an option that is None or an int *)
Truthy(x) == x # None /\ x # 0

----------------------------------------------------------------------------
(* The engine operations the constructors use (jitter.vm.set_mem,           *)
(* jitter.push_uint32_t / push_uint64_t, jitter.init_stack), acting on a    *)
(* machine record m = [sp, lr, mem, pushed, trace].                         *)

(* pck32 / pck64: the w little-endian bytes of v *)
RECURSIVE Pack(_, _)
Pack(w, v) == IF w = 0 THEN <<>> ELSE <<v % 256>> \o Pack(w - 1, v \div 256)

SetMem(memory, ptr, bytes) ==
    [a \in (DOMAIN memory) \cup (ptr..(ptr + Len(bytes) - 1)) |->
        IF a >= ptr /\ a < ptr + Len(bytes) THEN bytes[a - ptr + 1] ELSE memory[a]]

(* the stack page is mapped zero-filled by init_stack *)
ReadByte(memory, a) == IF a \in DOMAIN memory THEN memory[a] ELSE 0

ReadBytes(memory, a, n) == [i \in 1..n |-> ReadByte(memory, a + i - 1)]

RECURSIVE ReadWord(_, _, _)
ReadWord(memory, a, w) ==
    IF w = 0 THEN 0 ELSE ReadByte(memory, a) + 256 * ReadWord(memory, a + 1, w - 1)

Log(m, ev) == [m EXCEPT !.trace = Append(@, ev)]

Push(m, w, v) ==
    LET sp2 == m.sp - w
    IN  [m EXCEPT !.sp = sp2,
                  !.mem = SetMem(m.mem, sp2, Pack(w, v)),
                  !.pushed = Append(@, [w |-> w, v |-> v]),
                  !.trace = Append(@, "push")]

RECURSIVE PushAll(_, _, _)
PushAll(m, w, vals) ==
    IF vals = <<>> THEN m ELSE PushAll(Push(m, w, Head(vals)), w, Tail(vals))

RECURSIVE Reverse(_)
Reverse(s) == IF s = <<>> THEN <<>> ELSE Append(Reverse(Tail(s)), Head(s))

(* mutant: the string is written at the old stack pointer, which is *)
(* decremented afterwards                                           *)
WriteString_WriteFirst(m, s) ==
    LET z == Append(s, 0)
    IN  [m EXCEPT !.sp = m.sp - Len(z),
                  !.mem = SetMem(m.mem, m.sp, z),
                  !.trace = Append(@, "set_mem")]

(* for s in strs: s += "\x00"; SP -= len(s); ptr = SP; set_mem(ptr, s); *)
(* ptrs.append(ptr)                                                     *)
WriteString(m, s) ==
    LET z == Append(s, 0)
        sp2 == m.sp - Len(z)
    IN  [m EXCEPT !.sp = sp2,
                  !.mem = SetMem(m.mem, sp2, z),
                  !.trace = Append(@, "set_mem")]

RECURSIVE WriteStrings(_, _, _)
WriteStrings(m, strs, acc) ==
    IF strs = <<>> THEN [m |-> m, ptrs |-> acc]
    ELSE LET m2 == WriteString(m, Head(strs))
         IN  WriteStrings(m2, Tail(strs), Append(acc, m2.sp))

(* jitter.add_breakpoint(addr, cb): a callback already bound to the address *)
(* is not bound twice; bpLog keeps every registration request              *)
AddBreakpoint(m, addr, cb) ==
    [m EXCEPT !.bps = @ \cup {[addr |-> addr, cb |-> cb]},
              !.bpLog = Append(@, addr),
              !.trace = Append(@, "add_breakpoint")]

(* self.jitter.cpu.LR = 0x1337beef *)
SetLR(m, v) == [m EXCEPT !.lr = v, !.trace = Append(@, "set_LR")]

----------------------------------------------------------------------------
(* The per-class bootstrap code that follows Sandbox.__init__ in every      *)
(* Sandbox_* constructor. Each returns [m, env_ptrs, argv_ptrs].            *)

NoPtrs(m) == [m |-> m, env_ptrs |-> <<>>, argv_ptrs |-> <<>>]

(* the two string loops: environment strings first, then argument strings *)
WriteEnvArgs(m, args, envs) ==
    LET e == WriteStrings(m, envs, <<>>)
        a == WriteStrings(e.m, args, <<>>)
    IN  [m |-> a.m, env_ptrs |-> e.ptrs, argv_ptrs |-> a.ptrs]

(* mutant: the null word between the two pointer vectors is left out *)
PushVectors_NoSeparator(b, w, argc) ==
    LET m1 == Push(b.m, w, 0)
        m2 == PushAll(m1, w, Reverse(b.env_ptrs))
        m4 == PushAll(m2, w, Reverse(b.argv_ptrs))
        m5 == Push(m4, w, argc)
    IN  [b EXCEPT !.m = m5]

(* push 0, reversed(env_ptrs), 0, reversed(argv_ptrs), len(argv) *)
PushVectors(b, w, argc) ==
    LET m1 == Push(b.m, w, 0)
        m2 == PushAll(m1, w, Reverse(b.env_ptrs))
        m3 == Push(m2, w, 0)
        m4 == PushAll(m3, w, Reverse(b.argv_ptrs))
        m5 == Push(m4, w, argc)
    IN  [b EXCEPT !.m = m5]

WithSentinelBreakpoint(b) ==
    [b EXCEPT !.m = AddBreakpoint(@, EXIT_SENTINEL, "code_sentinelle")]

(* mutant: the sentinel is pushed first, the dummy words after it *)
Boot_Win_x86_32_SentinelFirst(m) ==
    WithSentinelBreakpoint(NoPtrs(PushAll(m, 4, <<EXIT_SENTINEL, 0, 1, 2>>)))

Boot_Win_x86_32(m) ==
    WithSentinelBreakpoint(NoPtrs(PushAll(m, 4, <<2, 1, 0, EXIT_SENTINEL>>)))

(* mutant: the sentinel is pushed first, the four slots after it *)
Boot_Win_x86_64_SentinelFirst(m) ==
    WithSentinelBreakpoint(
        NoPtrs(PushAll(Push(m, 8, EXIT_SENTINEL), 8, <<0, 0, 0, 0>>)))

Boot_Win_x86_64(m) ==
    WithSentinelBreakpoint(
        NoPtrs(Push(PushAll(m, 8, <<0, 0, 0, 0>>), 8, EXIT_SENTINEL)))

(* mutant: the pointer vectors are pushed without reversed() *)
Boot_Linux_x86_32_NotReversed(m, opts, args, envs) ==
    WithSentinelBreakpoint(
        IF opts.mimic_env
        THEN LET b == WriteEnvArgs(m, args, envs)
                 r == [b EXCEPT !.m = Push(@, 4, EXIT_SENTINEL),
                                !.env_ptrs = Reverse(@),
                                !.argv_ptrs = Reverse(@)]
             IN  [PushVectors(r, 4, Len(args)) EXCEPT
                      !.env_ptrs = b.env_ptrs, !.argv_ptrs = b.argv_ptrs]
        ELSE NoPtrs(Push(m, 4, EXIT_SENTINEL)))

(* mutant: the mimicry layout is built whatever options.mimic_env says *)
Boot_Linux_x86_32_AlwaysMimic(m, opts, args, envs) ==
    WithSentinelBreakpoint(
        LET b == WriteEnvArgs(m, args, envs)
        IN  PushVectors([b EXCEPT !.m = Push(@, 4, EXIT_SENTINEL)], 4, Len(args)))

Boot_Linux_x86_32(m, opts, args, envs) ==
    WithSentinelBreakpoint(
        IF opts.mimic_env
        THEN LET b == WriteEnvArgs(m, args, envs)
             IN  PushVectors([b EXCEPT !.m = Push(@, 4, EXIT_SENTINEL)], 4, Len(args))
        ELSE NoPtrs(Push(m, 4, EXIT_SENTINEL)))

(* mutant: the sentinel goes to a link register instead of the stack *)
Boot_Linux_x86_64_LinkRegister(m, opts, args, envs) ==
    LET b == IF opts.mimic_env
             THEN PushVectors(WriteEnvArgs(m, args, envs), 8, Len(args))
             ELSE NoPtrs(m)
    IN  WithSentinelBreakpoint([b EXCEPT !.m = SetLR(@, EXIT_SENTINEL)])

Boot_Linux_x86_64(m, opts, args, envs) ==
    WithSentinelBreakpoint(
        IF opts.mimic_env
        THEN LET b == WriteEnvArgs(m, args, envs)
             IN  PushVectors([b EXCEPT !.m = Push(@, 8, EXIT_SENTINEL)], 8, Len(args))
        ELSE NoPtrs(Push(m, 8, EXIT_SENTINEL)))

(* mutant: the sentinel is pushed as on x86 instead of set in LR *)
Boot_Linux_arml_Pushed(m, opts, args, envs) ==
    WithSentinelBreakpoint(
        IF opts.mimic_env
        THEN LET b == WriteEnvArgs(m, args, envs)
             IN  PushVectors([b EXCEPT !.m = Push(@, 4, EXIT_SENTINEL)], 4, Len(args))
        ELSE NoPtrs(Push(m, 4, EXIT_SENTINEL)))

Boot_Linux_arml(m, opts, args, envs) ==
    LET b == IF opts.mimic_env
             THEN PushVectors(WriteEnvArgs(m, args, envs), 4, Len(args))
             ELSE NoPtrs(m)
    IN  WithSentinelBreakpoint([b EXCEPT !.m = SetLR(@, EXIT_SENTINEL)])

(* mutant: the AArch64 vectors are pushed as 32-bit slots *)
Boot_Linux_aarch64l_Slot32(m, opts, args, envs) ==
    LET b == IF opts.mimic_env
             THEN PushVectors(WriteEnvArgs(m, args, envs), 4, Len(args))
             ELSE NoPtrs(m)
    IN  WithSentinelBreakpoint([b EXCEPT !.m = SetLR(@, EXIT_SENTINEL)])

Boot_Linux_aarch64l(m, opts, args, envs) ==
    LET b == IF opts.mimic_env
             THEN PushVectors(WriteEnvArgs(m, args, envs), 8, Len(args))
             ELSE NoPtrs(m)
    IN  WithSentinelBreakpoint([b EXCEPT !.m = SetLR(@, EXIT_SENTINEL)])

Boot_Linux_armb_str(m) ==
    WithSentinelBreakpoint(NoPtrs(SetLR(m, EXIT_SENTINEL)))

Boot_Linux_arml_str(m) ==
    WithSentinelBreakpoint(NoPtrs(SetLR(m, EXIT_SENTINEL)))

Bootstrap(v, m, opts, args, envs) ==
    CASE v = "Win_x86_32" -> Boot_Win_x86_32(m)
      [] v = "Win_x86_64" -> Boot_Win_x86_64(m)
      [] v = "Linux_x86_32" -> Boot_Linux_x86_32(m, opts, args, envs)
      [] v = "Linux_x86_64" -> Boot_Linux_x86_64(m, opts, args, envs)
      [] v = "Linux_arml" -> Boot_Linux_arml(m, opts, args, envs)
      [] v = "Linux_aarch64l" -> Boot_Linux_aarch64l(m, opts, args, envs)
      [] v = "Linux_armb_str" -> Boot_Linux_armb_str(m)
      [] v = "Linux_arml_str" -> Boot_Linux_arml_str(m)

----------------------------------------------------------------------------
(* The capability initialisers Sandbox.__init__ calls, in the order of the  *)
(* class's bases: the architecture first, then the OS loader.               *)

(* Arch.__init__ and the Arch_* __init__: Machine, jitter, init_stack *)
ArchInit(m, v) ==
    [m EXCEPT !.sp = StackTop(ArchOf(v)),
              !.trace = @ \o <<"Machine", "jitter", "init_stack">>]

(* an option that holds a numeric literal (str) or, once converted, an int *)
StrVal(s) == [tag |-> "str", s |-> s, n |-> None]
IntVal(n) == [tag |-> "int", s |-> <<>>, n |-> n]
Absent == [tag |-> "absent", s |-> <<>>, n |-> None]

(* int(x, 0): ValueError on a malformed literal, TypeError on a non-string *)
IntOf(x) ==
    IF x.tag # "str" THEN [err |-> "TypeError", n |-> None]
    ELSE IF ParseInt(x.s) = Bad THEN [err |-> "ValueError", n |-> None]
    ELSE [err |-> "none", n |-> ParseInt(x.s)]

OSInit_Win(opts, img) ==
    [err |-> "none", opts |-> opts, entry_point |-> img,
     argv |-> <<>>, envp |-> <<>>,
     trace |-> <<"vm_load_pe", "preload_pe", "add_lib_handler">>]

LinuxArgv(opts) ==
    IF opts.command_line # <<>>
    THEN <<PROGRAM_PATH>> \o opts.command_line
    ELSE <<PROGRAM_PATH>>

OSInit_Linux(opts, img) ==
    [err |-> "none", opts |-> opts, entry_point |-> img,
     argv |-> LinuxArgv(opts), envp |-> opts.environment_vars,
     trace |-> <<"vm_load_elf", "preload_elf", "add_lib_handler">>]

OSInit_Linux_str(opts, img) ==
    LET base == IntOf(opts.load_base_addr)
    IN  IF base.err # "none"
        THEN [err |-> base.err, opts |-> opts, entry_point |-> None,
              argv |-> <<>>, envp |-> <<>>, trace |-> <<>>]
        ELSE [err |-> "none",
              opts |-> [opts EXCEPT !.load_base_addr = IntVal(base.n)],
              entry_point |-> None,
              argv |-> LinuxArgv(opts), envp |-> opts.environment_vars,
              trace |-> <<"add_memory_page", "add_lib_handler">>]

OSInit(v, opts, img) ==
    CASE OSOf(v) = "Win" -> OSInit_Win(opts, img)
      [] OSOf(v) = "Linux" -> OSInit_Linux(opts, img)
      [] OSOf(v) = "Linux_str" -> OSInit_Linux_str(opts, img)

----------------------------------------------------------------------------
(* Inputs *)

ArgPool == {<<>>, <<120>>}
EnvPool == {<<>>, <<65, 61, 49>>}

SeqsUpTo(S, n) == UNION {[1..k -> S] : k \in 0..n}

AddrNone == <<"None">>
AddressPool ==
    {AddrNone, <<"1", "6">>, <<"0", "x", "1", "f">>, <<"0", "1", "0">>,
     <<"0", "x", "z">>}

Ports == {0, 1234}
EntryPoints == {4194304, 4198400}
LoadBasePool == {<<"0", "x", "1", "0", "0">>, <<"0", "x">>}
AddrArgs == {0, EXIT_SENTINEL}

(* the option names (argparse dests) each parser accepts: Sandbox.parser    *)
(* adds the common ones, then every base class adds its own                 *)
BaseOptions ==
    {"address", "dumpblocs", "singlestep", "debugging", "gdbserver",
     "jitter", "quiet_function_calls", "dependencies"}

ArchOptions(a) == IF a \in {"x86_32", "x86_64"} THEN {"usesegm"} ELSE {}

OSOptions(os) ==
    CASE os = "Win" ->
             {"load_hdr", "use_seh", "loadbasedll", "parse_resources"}
      [] os = "Linux" -> {"command_line", "environment_vars", "mimic_env"}
      [] os = "Linux_str" ->
             {"command_line", "environment_vars", "mimic_env",
              "load_base_addr"}

ParserOptions(v) ==
    BaseOptions \cup ArchOptions(ArchOf(v)) \cup OSOptions(OSOf(v))

HasEnvOptions(v) ==
    {"command_line", "environment_vars", "mimic_env"} \subseteq ParserOptions(v)

(* one parser.add_argument call: its option strings (none for a positional) *)
(* and the dest the parsed value is stored under                            *)
Decl(flags, dest) == [flags |-> flags, dest |-> dest]

(* Sandbox.parser: the options common to every sandbox *)
BaseDecls ==
    <<Decl({"-a", "--address"}, "address"),
      Decl({"-b", "--dumpblocs"}, "dumpblocs"),
      Decl({"-z", "--singlestep"}, "singlestep"),
      Decl({"-d", "--debugging"}, "debugging"),
      Decl({"-g", "--gdbserver"}, "gdbserver"),
      Decl({"-j", "--jitter"}, "jitter"),
      Decl({"-q", "--quiet-function-calls"}, "quiet_function_calls"),
      Decl({"-i", "--dependencies"}, "dependencies")>>

(* mutant: the x86 capability declares its option under the short flag -a *)
ArchDecls_ShortA(a) ==
    IF a \in {"x86_32", "x86_64"}
    THEN <<Decl({"-a", "--usesegm"}, "usesegm")>>
    ELSE <<>>

(* Arch.update_parser: nothing, except Arch_x86.update_parser *)
ArchDecls(a) ==
    IF a \in {"x86_32", "x86_64"}
    THEN <<Decl({"-s", "--usesegm"}, "usesegm")>>
    ELSE <<>>

LinuxDecls ==
    <<Decl({"-c", "--command-line"}, "command_line"),
      Decl({"--environment-vars"}, "environment_vars"),
      Decl({"--mimic-env"}, "mimic_env")>>

(* OS_Win / OS_Linux / OS_Linux_str .update_parser *)
OSDecls(os) ==
    CASE os = "Win" ->
             <<Decl({"-o", "--load-hdr"}, "load_hdr"),
               Decl({"-y", "--use-seh"}, "use_seh"),
               Decl({"-l", "--loadbasedll"}, "loadbasedll"),
               Decl({"-r", "--parse-resources"}, "parse_resources")>>
      [] os = "Linux" -> LinuxDecls
      [] os = "Linux_str" ->
             LinuxDecls \o <<Decl({}, "load_base_addr")>>

(* the add_argument calls of Sandbox.parser for class v, in call order: the *)
(* common options, then update_parser of every base class                   *)
Declarations(v) == BaseDecls \o ArchDecls(ArchOf(v)) \o OSDecls(OSOf(v))

(* ArgumentParser(...): the keyword arguments of parser() are passed on to  *)
(* the constructor, conflict_handler among them ("error" when not given);   *)
(* the parser starts with its help option; mixin records the declarations   *)
(* of a further capability class among the bases                            *)
Handlers == {"error", "resolve"}

NewParser(handler, mixin) ==
    [handler |-> handler, mixin |-> mixin,
     actions |-> {Decl({"-h", "--help"}, "help")}, err |-> "none"]

ParserFlags(p) == UNION {a.flags : a \in p.actions}
ParserDests(p) == {a.dest : a \in p.actions}

(* parser.add_argument: an option string that is already taken raises       *)
(* ArgumentError under the "error" handler; under "resolve" it is taken     *)
(* from the earlier option, which is dropped once it has no string left     *)
AddArgument(p, d) ==
    IF p.err # "none" THEN p
    ELSE IF d.flags \cap ParserFlags(p) = {}
         THEN [p EXCEPT !.actions = @ \cup {d}]
         ELSE IF p.handler = "error"
              THEN [p EXCEPT !.err = "ArgumentError"]
              ELSE [p EXCEPT !.actions =
                       {[a EXCEPT !.flags = @ \ d.flags] :
                           a \in {b \in p.actions :
                                     b.flags = {} \/ b.flags \ d.flags # {}}}
                       \cup {d}]

RECURSIVE AddAll(_, _)
AddAll(p, decls) ==
    IF decls = <<>> THEN p
    ELSE AddAll(AddArgument(p, Head(decls)), Tail(decls))

(* cls.parser(): the parser the options of a sandbox of class v come from *)
BuildParser(v) == AddAll(NewParser("error", <<>>), Declarations(v))

(* declarations a further capability class may bring to a sandbox class     *)
(* that lists it among its bases                                            *)
MixinPool ==
    {<<>>,
     <<Decl({"-x", "--extra"}, "extra")>>,
     <<Decl({"-s", "--usesegm"}, "usesegm")>>,
     <<Decl({"-c", "--command-line"}, "command_line")>>,
     <<Decl({"-a"}, "alt_address"), Decl({"-x"}, "extra")>>}

(* the modules of miasm2.os_dep whose namespace serves as the method table  *)
OSModules == {"win_api_x86_32", "linux_stdlib"}

OSModule(os) == IF os = "Win" THEN "win_api_x86_32" ELSE "linux_stdlib"

(* API names: one the OS module implements, one it does not *)
ApiNames == {"stub", "hook"}
DefaultMethods == [n \in {"stub"} |-> "default"]

(* custom_methods=None stands for the empty dictionary *)
NoCustom == [n \in {} |-> "none"]
CustomPool(impl) == {[n \in S |-> impl] : S \in SUBSET ApiNames}

(* dict.update *)
Update(table, custom) ==
    [n \in DOMAIN table \cup DOMAIN custom |->
        IF n \in DOMAIN custom THEN custom[n] ELSE table[n]]

(* mutant: the sandbox works on its own copy of the module's namespace *)
OSMethods_Copy(tables, os, custom) ==
    [tables |-> tables,
     handle |-> [ref |-> "none", own |-> Update(tables[OSModule(os)], custom)]]

(* methods = <module>.__dict__; methods.update(custom_methods): the table   *)
(* is the module's namespace itself, and that object is what the OS         *)
(* initialiser later gives to add_lib_handler                               *)
OSMethods(tables, os, custom) ==
    [tables |-> [tables EXCEPT ![OSModule(os)] = Update(@, custom)],
     handle |-> [ref |-> OSModule(os), own |-> NoCustom]]

LogDefault ==
    [log_mn |-> FALSE, log_regs |-> FALSE, log_newbloc |-> FALSE,
     log_func |-> FALSE]

NoLast ==
    [op |-> "none", path |-> "none", arg |-> None, start |-> None,
     err |-> "none", cb |-> "none", ret |-> None, args |-> <<>>, instrs |-> 0,
     fired |-> FALSE, resumes |-> FALSE, form |-> "none", cbargs |-> <<>>]

(* the option namespaces the parser of class v can produce in which the    *)
(* options of group g vary and all others keep the parser's defaults: the   *)
(* run configuration ("run"), the logging flags ("log"), the mimicry flag   *)
(* ("mimic"), the mimicry flag with the argument vectors ("args")           *)
OptionSpace(v, g) ==
    [address : IF g = "run" THEN AddressPool ELSE {AddrNone},
     debugging : IF g = "run" THEN BOOLEAN ELSE {FALSE},
     gdbserver : IF g = "run" THEN {None} \cup Ports ELSE {None},
     singlestep : IF g = "log" THEN BOOLEAN ELSE {FALSE},
     dumpblocs : IF g = "log" THEN BOOLEAN ELSE {FALSE},
     quiet_function_calls : IF g = "log" THEN BOOLEAN ELSE {FALSE},
     mimic_env :
         IF HasEnvOptions(v) /\ g \in {"mimic", "args"} THEN BOOLEAN
         ELSE {FALSE},
     command_line :
         IF HasEnvOptions(v) /\ g = "args" THEN SeqsUpTo(ArgPool, MaxArgs)
         ELSE {<<>>},
     environment_vars :
         IF HasEnvOptions(v) /\ g = "args" THEN SeqsUpTo(EnvPool, MaxEnv)
         ELSE {<<>>},
     load_base_addr :
         IF OSOf(v) = "Linux_str"
         THEN {StrVal(s) : s \in LoadBasePool}
         ELSE {Absent}]

Images(v) == IF OSOf(v) = "Linux_str" THEN {None} ELSE EntryPoints
DefaultImage(v) == IF OSOf(v) = "Linux_str" THEN None ELSE 4194304

(* an allocated instance on which no __init__ has run *)
Fresh ==
    /\ phase = "new"
    /\ entry_point = None
    /\ argv = <<>>
    /\ envp = <<>>
    /\ SP = 0
    /\ LR = 0
    /\ mem = <<>>
    /\ pushed = <<>>
    /\ ptrs = [env |-> <<>>, argv |-> <<>>]
    /\ breakpoints = {}
    /\ bpLog = <<>>
    /\ inits = [arch |-> 0, os |-> 0]
    /\ trace = <<>>
    /\ pc = None
    /\ run = FALSE
    /\ last = NoLast
    /\ ops = 0
    /\ fires = 0
    /\ callLog = <<>>
    /\ logging = LogDefault
    /\ built = 0
    /\ methods = [md \in OSModules |-> DefaultMethods]
    /\ handlers = <<>>

(* the custom_methods dictionaries given to the first and to the second    *)
(* sandbox: they vary in group "methods", otherwise none is given           *)
CustomSpace(g) ==
    IF g = "methods"
    THEN CustomPool("impl_a") \X CustomPool("impl_b")
    ELSE {<<NoCustom, NoCustom>>}

(* the options were parsed by the finished parser of the class *)
Parsed ==
    /\ parser = BuildParser(variant)
    /\ todo = <<>>

(* sandboxes driven through sequences of operations: the run configuration, *)
(* the logging flags, the mimicry flag or the image varies, the rest keeps  *)
(* the parser's defaults and the argument vectors are empty                 *)
Init ==
    /\ variant \in Variants
    /\ Parsed
    /\ \E g \in {"run", "log", "mimic", "image", "methods"} :
          /\ options \in OptionSpace(variant, g)
          /\ customs \in CustomSpace(g)
          /\ image \in (IF g = "image" THEN Images(variant)
                         ELSE {DefaultImage(variant)})
    /\ Fresh

(* sandboxes under construction: the argument vectors, the environment      *)
(* vectors and the mimicry flag vary, the run configuration and the logging *)
(* flags keep the parser's defaults                                         *)
InitBoot ==
    /\ variant \in Variants
    /\ Parsed
    /\ customs \in CustomSpace("args")
    /\ options \in OptionSpace(variant, "args")
    /\ image \in Images(variant)
    /\ Fresh

----------------------------------------------------------------------------
(* Sandbox_*.__init__: Sandbox.__init__ (capability initialisers, logging   *)
(* toggles) followed by the class's bootstrap code.                         *)

NewMachine ==
    [sp |-> 0, lr |-> 0, mem |-> <<>>, pushed |-> <<>>, bps |-> {},
     bpLog |-> <<>>, trace |-> <<>>, logging |-> LogDefault]

(* mutant: the OS loader is listed before the architecture *)
Bases_OSFirst(v) ==
    <<[kind |-> "OS", name |-> OSOf(v)], [kind |-> "Arch", name |-> ArchOf(v)]>>

(* cls.__bases__ without Sandbox, in the order of the class statement:      *)
(* the architecture capability, then the OS-loader capability              *)
Bases(v) ==
    <<[kind |-> "Arch", name |-> ArchOf(v)], [kind |-> "OS", name |-> OSOf(v)]>>

(* for cls in self.classes: cls.__init__(self, ...); an exception ends it   *)
RECURSIVE InitBases(_, _, _, _)
InitBases(bases, st, v, img) ==
    IF bases = <<>> \/ st.err # "none" THEN st
    ELSE LET cls == Head(bases)
             st2 == IF cls.kind = "OS"
                    THEN LET os == OSInit(v, st.opts, img)
                         IN  [st EXCEPT !.err = os.err,
                                        !.opts = os.opts,
                                        !.entry_point = os.entry_point,
                                        !.argv = os.argv,
                                        !.envp = os.envp,
                                        !.m.trace = @ \o os.trace,
                                        !.inits.os = @ + 1]
                    ELSE [st EXCEPT !.m = ArchInit(@, v),
                                    !.inits.arch = @ + 1]
         IN  InitBases(Tail(bases), st2, v, img)

(* the "Logging options" statements that end Sandbox.__init__ *)
LogToggles(m, opts) ==
    LET a == IF opts.singlestep
             THEN [m EXCEPT !.logging.log_mn = TRUE,
                            !.logging.log_regs = TRUE,
                            !.trace = @ \o <<"jit.log_mn", "jit.log_regs">>]
             ELSE m
        b == IF ~opts.quiet_function_calls
             THEN [a EXCEPT !.logging.log_func = TRUE,
                            !.trace = Append(@, "log_func.setLevel")]
             ELSE a
    IN  IF opts.dumpblocs
        THEN [b EXCEPT !.logging.log_newbloc = TRUE,
                       !.trace = Append(@, "jit.log_newbloc")]
        ELSE b

(* Sandbox.__init__ *)
SandboxInit(v, opts, img) ==
    LET st == InitBases(Bases(v),
                        [err |-> "none", opts |-> opts, entry_point |-> None,
                         argv |-> <<>>, envp |-> <<>>, m |-> NewMachine,
                         inits |-> [arch |-> 0, os |-> 0]],
                        v, img)
    IN  IF st.err # "none" THEN st
        ELSE [st EXCEPT !.m = LogToggles(@, st.opts)]

(* the custom_methods argument of the i-th construction *)
Custom(i) == IF i \in DOMAIN customs THEN customs[i] ELSE NoCustom

(* the table a sandbox's library-call handler looks names up in *)
TableOf(h) == IF h.ref # "none" THEN methods[h.ref] ELSE h.own

(* a Sandbox_* constructor applied to the options object as it now is; the  *)
(* OS initialiser merges custom_methods on entry and registers the table    *)
(* as its last engine call                                                  *)
Build ==
    \E st \in {SandboxInit(variant, options, image)} :
    \E ok \in {st.err = "none"} :
    \E b \in {IF ok
               THEN Bootstrap(variant, st.m, st.opts, st.argv, st.envp)
               ELSE NoPtrs(st.m)} :
    \E m \in {b.m} :
        /\ phase' = (IF ok THEN "ready" ELSE "failed")
        /\ options' = st.opts
        /\ entry_point' = st.entry_point
        /\ argv' = st.argv
        /\ envp' = st.envp
        /\ SP' = m.sp
        /\ LR' = m.lr
        /\ mem' = m.mem
        /\ pushed' = m.pushed
        /\ ptrs' = (IF ok THEN [env |-> b.env_ptrs, argv |-> b.argv_ptrs]
                    ELSE [env |-> <<>>, argv |-> <<>>])
        /\ breakpoints' = m.bps
        /\ bpLog' = m.bpLog
        /\ logging' = m.logging
        /\ trace' = m.trace
        /\ inits' = st.inits
        /\ last' = [NoLast EXCEPT !.op = "init", !.err = st.err]
        /\ pc' = None
        /\ run' = FALSE
        /\ fires' = 0
        /\ callLog' = <<>>
        /\ \E t \in {OSMethods(methods, OSOf(variant), Custom(built + 1))} :
              /\ methods' = (IF st.inits.os > 0 THEN t.tables ELSE methods)
              /\ handlers' = (IF ok THEN Append(handlers, t.handle)
                              ELSE handlers)
        /\ UNCHANGED <<parser, todo, customs>>

(* the first sandbox constructed from the options *)
Construct ==
    /\ phase = "new"
    /\ Build
    /\ built' = 1
    /\ UNCHANGED <<variant, image, ops>>

(* run() / call() and further constructions share the operation budget *)
OpsLeft == ops + built - 1 < MaxOps

(* another sandbox of the same class constructed from the same options     *)
(* object after the first one was built                                     *)
Rebuild ==
    /\ phase = "ready"
    /\ OpsLeft
    /\ Build
    /\ built' = built + 1
    /\ ops' = 0
    /\ UNCHANGED <<variant, image>>

----------------------------------------------------------------------------
(* run(addr): start-address resolution, then one of the three drivers.      *)

HasImage(v) == OSOf(v) \in {"Win", "Linux"}

(* mutant: the entry point is used whenever no argument is given *)
SubclassAddr_EntryFirst(v, opts, ep, addr) ==
    IF HasImage(v)
    THEN [err |-> "none", n |-> IF addr = None THEN ep ELSE addr]
    ELSE IF addr = None /\ opts.address # AddrNone
         THEN IntOf(StrVal(opts.address))
         ELSE [err |-> "none", n |-> addr]

(* the Sandbox_*.run overrides: the loaded-image classes fall back to the  *)
(* entry point, the raw-binary classes parse the override themselves       *)
SubclassAddr(v, opts, ep, addr) ==
    IF HasImage(v)
    THEN [err |-> "none",
          n |-> IF addr = None /\ opts.address = AddrNone THEN ep ELSE addr]
    ELSE IF addr = None /\ opts.address # AddrNone
         THEN IntOf(StrVal(opts.address))
         ELSE [err |-> "none", n |-> addr]

(* mutant: a malformed override is ignored *)
BaseAddr_Lenient(opts, r) ==
    IF r.err = "none" /\ r.n = None /\ opts.address # AddrNone
          /\ ParseInt(opts.address) # Bad
    THEN IntOf(StrVal(opts.address))
    ELSE r

(* Sandbox.run, first statement *)
BaseAddr(opts, r) ==
    IF r.err = "none" /\ r.n = None /\ opts.address # AddrNone
    THEN IntOf(StrVal(opts.address))
    ELSE r

ResolveStart(v, opts, ep, addr) == BaseAddr(opts, SubclassAddr(v, opts, ep, addr))

(* Sandbox.run, the dispatch on options.debugging / options.gdbserver *)
RunPath(opts) ==
    IF opts.debugging \/ Truthy(opts.gdbserver)
    THEN IF Truthy(opts.gdbserver) THEN "remote" ELSE "interactive"
    ELSE "continuous"

PathTrace(path) ==
    CASE path = "remote" ->
             <<"Debugguer", "dbg.init_run", "machine.gdbserver", "gdb.run">>
      [] path = "interactive" ->
             <<"Debugguer", "dbg.init_run", "DebugCmd", "cmd.cmdloop">>
      [] path = "continuous" -> <<"jitter.init_run", "jitter.continue_run">>

BoundAddrs(bps) == {b.addr : b \in bps}

(* jitter.continue_run from pc = start: a breakpoint bound at the current   *)
(* pc fires before any instruction is translated; otherwise the guest runs  *)
(* until a bound breakpoint halts it or the engine faults                   *)
(* mutant: the callback asks the engine to go on *)
code_sentinelle_Resume(jitter) == [jitter |-> jitter, ret |-> TRUE]

(* Sandbox.code_sentinelle: jitter.run = False; return False *)
code_sentinelle(jitter) ==
    [jitter |-> [jitter EXCEPT !.run = FALSE], ret |-> FALSE]

(* the breakpoint bound at a fires after n instructions *)
Halt(a, n) ==
    LET r == code_sentinelle([pc |-> a, run |-> TRUE])
    IN  [pc |-> r.jitter.pc, run |-> r.jitter.run, instrs |-> n,
         err |-> "none", fired |-> TRUE, resumes |-> r.ret]

Fault(a, n) ==
    [pc |-> a, run |-> TRUE, instrs |-> n, err |-> "fault", fired |-> FALSE,
     resumes |-> FALSE]

ContinueRun(start, bps) ==
    IF start = None THEN {Fault(start, 0)}
    ELSE IF start \in BoundAddrs(bps) THEN {Halt(start, 0)}
    ELSE {Halt(a, 1) : a \in BoundAddrs(bps)} \cup {Fault(start, 1)}

(* a debugger session: the user may leave before resuming the guest *)
Session(start, bps) ==
    {[pc |-> start, run |-> TRUE, instrs |-> 0, err |-> "none",
      fired |-> FALSE, resumes |-> FALSE]}
        \cup ContinueRun(start, bps)

Drive(path, start, bps) ==
    IF path = "continuous" THEN ContinueRun(start, bps) ELSE Session(start, bps)

Run(addr) ==
    /\ phase = "ready"
    /\ OpsLeft
    /\ LET r == ResolveStart(variant, options, entry_point, addr)
           path == RunPath(options)
       IN  IF r.err # "none"
           THEN /\ last' = [NoLast EXCEPT !.op = "run", !.arg = addr,
                                          !.err = r.err]
                /\ trace' = <<>>
                /\ UNCHANGED <<pc, run, fires>>
           ELSE \E out \in Drive(path, r.n, breakpoints) :
                /\ last' = [NoLast EXCEPT !.op = "run", !.path = path,
                                          !.arg = addr, !.start = r.n,
                                          !.err = out.err,
                                          !.instrs = out.instrs,
                                          !.fired = out.fired,
                                          !.resumes = out.resumes]
                /\ fires' = fires + (IF out.fired THEN 1 ELSE 0)
                /\ trace' = PathTrace(path)
                /\ pc' = out.pc
                /\ run' = out.run
    /\ ops' = ops + 1
    /\ UNCHANGED <<variant, options, image, phase, entry_point, argv, envp,
                   SP, LR, mem, pushed, ptrs, breakpoints, bpLog, inits,
                   callLog, logging, built, parser, todo, methods, handlers,
                   customs>>

----------------------------------------------------------------------------
(* call(addr, *args, prepare_cb=...) of the classes that define it, and     *)
(* Sandbox.call(prepare_cb, addr, *args) which the others inherit.          *)

HasCallOverride(v) == v \notin {"Linux_armb_str", "Linux_arml_str"}

DefaultPrepare(v) ==
    IF OSOf(v) = "Win" THEN "func_prepare_stdcall" ELSE "func_prepare_systemv"

CallTargets == {4198400}
CallArgs == {<<>>, <<1, 2>>}

(* how the caller names the callback: "default" is call(addr, *args),       *)
(* "custom_cb" is call(addr, *args, prepare_cb=custom_cb), "positional_cb"  *)
(* is call(custom_cb, addr, *args), the signature of Sandbox.call           *)
Callbacks == {"default", "custom_cb", "positional_cb"}

(* the binding of the caller's arguments to the parameters of the call     *)
(* method the class resolves to: the override call(addr, *args, **kwargs)   *)
(* picks prepare_cb from the keywords or the class default; the inherited   *)
(* Sandbox.call(prepare_cb, addr, *args) takes its first two positionals    *)
CallBinding(v, form, addr, args) ==
    IF HasCallOverride(v)
    THEN [err |-> "none",
          cb |-> IF form = "default" THEN DefaultPrepare(v) ELSE "custom_cb",
          addr |-> addr, args |-> args]
    ELSE CASE form = "positional_cb" ->
                  [err |-> "none", cb |-> "custom_cb", addr |-> addr,
                   args |-> args]
           [] form = "custom_cb" ->
                  [err |-> "TypeError", cb |-> "none", addr |-> None,
                   args |-> <<>>]
           [] form = "default" ->
                  IF args = <<>>
                  THEN [err |-> "TypeError", cb |-> "none", addr |-> None,
                        args |-> <<>>]
                  ELSE [err |-> "none", cb |-> "int", addr |-> Head(args),
                        args |-> Tail(args)]

(* mutant: call() binds the program-exit sentinel again *)
CallSetup_Rebind(m, addr) ==
    Log(AddBreakpoint(
            AddBreakpoint(Log(m, "jitter.init_run"), EXIT_SENTINEL,
                          "code_sentinelle"),
            CALL_FINNISH_ADDR, "code_sentinelle"),
        "prepare_cb")

(* mutant: the callback is invoked before the engine is initialised *)
CallSetup_PrepareFirst(m, addr) ==
    AddBreakpoint(Log(Log(m, "prepare_cb"), "jitter.init_run"),
                  CALL_FINNISH_ADDR, "code_sentinelle")

(* mutant: call() replaces the breakpoint table by its own binding *)
CallSetup_DropExit(m, addr) ==
    Log(AddBreakpoint([Log(m, "jitter.init_run") EXCEPT !.bps = {}],
                      CALL_FINNISH_ADDR, "code_sentinelle"),
        "prepare_cb")

(* mutant: every call() binds one more callback to the sentinel *)
CallSetup_SecondCallback(m, addr) ==
    Log(AddBreakpoint(
            AddBreakpoint(Log(m, "jitter.init_run"), CALL_FINNISH_ADDR,
                          "code_sentinelle"),
            CALL_FINNISH_ADDR, "halt_wrapper"),
        "prepare_cb")

(* the engine calls of Sandbox.call before the guest is resumed *)
CallSetup(m, addr) ==
    Log(AddBreakpoint(Log(m, "jitter.init_run"), CALL_FINNISH_ADDR,
                      "code_sentinelle"),
        "prepare_cb")

(* prepare_cb(self.CALL_FINNISH_ADDR, *args) *)
PrepareArgs(args) == <<CALL_FINNISH_ADDR>> \o args

Call(form, addr, args) ==
    /\ phase = "ready"
    /\ OpsLeft
    /\ form = "positional_cb" => ~HasCallOverride(variant)
    /\ LET b == CallBinding(variant, form, addr, args)
           m == CallSetup([NewMachine EXCEPT !.bps = breakpoints,
                                             !.bpLog = bpLog], b.addr)
           base == [NoLast EXCEPT !.op = "call", !.form = form, !.arg = addr,
                                  !.args = args, !.cb = b.cb]
       IN  IF b.err # "none"
           THEN \* the method is never entered
                /\ last' = [base EXCEPT !.err = b.err]
                /\ trace' = <<>>
                /\ UNCHANGED <<breakpoints, bpLog, pc, run, fires, callLog>>
           ELSE IF b.cb = "int"
           THEN \* prepare_cb holds the address: calling it raises
                /\ last' = [base EXCEPT !.path = "continuous",
                                        !.start = b.addr,
                                        !.err = "TypeError"]
                /\ breakpoints' = m.bps
                /\ bpLog' = m.bpLog
                /\ trace' = m.trace
                /\ pc' = b.addr
                /\ run' = TRUE
                /\ UNCHANGED <<fires, callLog>>
           ELSE \E out \in ContinueRun(b.addr, m.bps) :
                /\ breakpoints' = m.bps
                /\ bpLog' = m.bpLog
                /\ trace' = Append(m.trace, "jitter.continue_run")
                /\ last' = [base EXCEPT !.path = "continuous",
                                        !.start = b.addr,
                                        !.err = out.err,
                                        !.ret = Head(PrepareArgs(b.args)),
                                        !.cbargs = PrepareArgs(b.args),
                                        !.instrs = out.instrs,
                                        !.fired = out.fired,
                                        !.resumes = out.resumes]
                /\ fires' = fires + (IF out.fired THEN 1 ELSE 0)
                /\ callLog' = Append(callLog, b.args)
                /\ pc' = out.pc
                /\ run' = out.run
    /\ ops' = ops + 1
    /\ UNCHANGED <<variant, options, image, phase, entry_point, argv, envp,
                   SP, LR, mem, pushed, ptrs, inits, logging, built, parser,
                   todo, methods, handlers, customs>>

----------------------------------------------------------------------------
Next ==
    \/ Construct
    \/ Rebuild
    \/ \E addr \in {None} \cup AddrArgs : Run(addr)
    \/ \E form \in Callbacks, addr \in CallTargets, args \in CallArgs :
          Call(form, addr, args)

Spec == Init /\ [][Next]_vars

(* the constructor followed by at most one operation *)
FirstRun(addr) == ops = 0 /\ built = 1 /\ Run(addr)
FirstCall(form, addr, args) == ops = 0 /\ built = 1 /\ Call(form, addr, args)

NextBoot ==
    \/ Construct
    \/ \E addr \in {None} \cup AddrArgs : FirstRun(addr)
    \/ \E form \in Callbacks, addr \in CallTargets, args \in CallArgs :
          FirstCall(form, addr, args)

SpecBoot == InitBoot /\ [][NextBoot]_vars

(* parser construction, one add_argument call at a time: the class, the     *)
(* conflict handler and the declarations of a further base class vary       *)
InitParser ==
    /\ variant \in Variants
    /\ options \in OptionSpace(variant, "none")
    /\ customs \in CustomSpace("none")
    /\ image = DefaultImage(variant)
    /\ Fresh
    /\ \E h \in Handlers, mx \in MixinPool :
          /\ parser = NewParser(h, mx)
          /\ todo = Declarations(variant) \o mx

(* the next add_argument call; an exception ends the construction *)
AddArgumentStep ==
    /\ todo # <<>>
    /\ parser.err = "none"
    /\ parser' = AddArgument(parser, Head(todo))
    /\ todo' = IF parser'.err = "none" THEN Tail(todo) ELSE todo
    /\ UNCHANGED <<variant, options, image, phase, entry_point, argv, envp,
                   SP, LR, mem, pushed, ptrs, breakpoints, bpLog, inits,
                   trace, pc, run, last, ops, fires, callLog, logging, built,
                   methods, handlers, customs>>

NextParser == AddArgumentStep

SpecParser == InitParser /\ [][NextParser]_vars

----------------------------------------------------------------------------
(* Observations used by the properties *)

Ready == phase = "ready"
RanOk == last.op = "run" /\ last.err # "ValueError" /\ last.err # "TypeError"
WordSize == IF ArchOf(variant) \in {"x86_32", "arml", "armb"} THEN 4 ELSE 8
Top == StackTop(ArchOf(variant))
Mimic == Ready /\ OSOf(variant) = "Linux" /\ options.mimic_env

(* the i-th word above the stack pointer, i = 0 being the top of the stack *)
Word(i) == ReadWord(mem, SP + i * WordSize, WordSize)

(* the argument and environment strings the configuration asks for *)
ArgStrings == <<PROGRAM_PATH>> \o options.command_line
EnvStrings == options.environment_vars
NArgs == Len(ArgStrings)
NEnv == Len(EnvStrings)

Count(seq, x) == Cardinality({i \in DOMAIN seq : seq[i] = x})
PushedValues == {pushed[i].v : i \in DOMAIN pushed}
SentinelBound == [addr |-> EXIT_SENTINEL, cb |-> "code_sentinelle"] \in breakpoints

----------------------------------------------------------------------------
(* C1: every run() takes the remote path when a gdbserver port is           *)
(* configured (whatever debugging says), else the interactive path when     *)
(* debugging is requested, else the continuous path. Stated for the runs    *)
(* whose start address resolved; violated by the configured port 0.         *)
C1_ModeByPrecedence ==
    RanOk =>
        last.path = (IF options.gdbserver # None THEN "remote"
                     ELSE IF options.debugging THEN "interactive"
                     ELSE "continuous")

(* C2: on a loaded-image variant the address handed to init_run is the      *)
(* explicit argument, else the parsed --address override, else the image's  *)
(* entry point.                                                             *)
C2_StartAddress ==
    (RanOk /\ HasImage(variant)) =>
        /\ last.start =
             (IF last.arg # None THEN last.arg
              ELSE IF options.address # AddrNone THEN ParseInt(options.address)
              ELSE image)
        /\ (last.arg = None /\ options.address = <<"0", "x", "1", "f">>)
              => last.start = 31
        /\ (last.arg = None /\ options.address = <<"0", "1", "0">>)
              => last.start = 8
        /\ (last.arg = None /\ options.address = <<"1", "6">>)
              => last.start = 16

C2_Witness ==
    /\ RanOk
    /\ variant = "Win_x86_32"
    /\ last.arg = None
    /\ options.address = AddrNone
    /\ last.start = image
    /\ "jitter.init_run" \in {trace[i] : i \in DOMAIN trace}

(* C3: the bootstrap (capability initialisers, stack pushes / LR preset,    *)
(* program-exit sentinel registration) happens exactly once, in the         *)
(* constructor, before any run() or call(); run() and call() repeat none    *)
(* of it however often and in whatever order they are invoked.              *)
BootPushes ==
    CASE variant = "Win_x86_32" -> 4
      [] variant = "Win_x86_64" -> 5
      [] variant \in {"Linux_x86_32", "Linux_x86_64"} ->
             IF options.mimic_env THEN NArgs + NEnv + 4 ELSE 1
      [] variant \in {"Linux_arml", "Linux_aarch64l"} ->
             IF options.mimic_env THEN NArgs + NEnv + 3 ELSE 0
      [] OTHER -> 0

BootEvents ==
    {"Machine", "jitter", "init_stack", "vm_load_pe", "preload_pe",
     "vm_load_elf", "preload_elf", "add_memory_page", "add_lib_handler",
     "jit.log_mn", "jit.log_regs", "log_func.setLevel", "jit.log_newbloc",
     "push", "set_mem", "set_LR"}

C3_BootstrapOnce ==
    /\ ~Ready => ops = 0 /\ last.op \notin {"run", "call"}
    /\ Ready =>
         /\ inits = [arch |-> 1, os |-> 1]
         /\ Count(bpLog, EXIT_SENTINEL) = 1
         /\ bpLog[1] = EXIT_SENTINEL
         /\ Len(pushed) = BootPushes
         /\ last.op \in {"run", "call"} =>
               \A i \in DOMAIN trace : trace[i] \notin BootEvents

C3_Witness ==
    /\ Ready
    /\ ops = 2
    /\ last.op = "call"
    /\ Len(bpLog) = 2
    /\ Len(pushed) > 0

(* the word vectors above the stack pointer: the count, NArgs pointers to   *)
(* the argument strings in their order, a null word, NEnv pointers to the   *)
(* environment strings in their order, a null word                          *)
PointsTo(p, str) == ReadBytes(mem, p, Len(str) + 1) = Append(str, 0)

VectorShape ==
    /\ Word(0) = NArgs
    /\ \A i \in 1..NArgs : PointsTo(Word(i), ArgStrings[i])
    /\ Word(NArgs + 1) = 0
    /\ \A j \in 1..NEnv : PointsTo(Word(NArgs + 1 + j), EnvStrings[j])
    /\ Word(NArgs + NEnv + 2) = 0

Word32(v) == [w |-> 4, v |-> v]
Words32(vs) == [i \in DOMAIN vs |-> Word32(vs[i])]

(* C4: Linux x86-32 with mimicry: strings written NUL-terminated into       *)
(* descending memory, environment first; then pushed in order sentinel, 0,  *)
(* environment pointers reversed, 0, argument pointers reversed, argc; so   *)
(* upward from SP: argc, argv[0..N-1], 0, envp[0..M-1], 0, sentinel, string *)
(* bytes. Scenario B (argv = ./program x, envp = A=1) has the layout given. *)
C4_Linux32MimicLayout ==
    (Mimic /\ variant = "Linux_x86_32") =>
        /\ pushed = Words32(<<EXIT_SENTINEL, 0>> \o Reverse(ptrs.env) \o <<0>>
                               \o Reverse(ptrs.argv) \o <<NArgs>>)
        /\ VectorShape
        /\ Word(NArgs + NEnv + 3) = EXIT_SENTINEL
        /\ SP + 4 * (NArgs + NEnv + 4) = Word(NArgs)
        /\ \A i \in 1..NArgs : \A j \in 1..NEnv : Word(i) < Word(NArgs + 1 + j)
        /\ \A i \in 1..(NArgs - 1) : Word(i + 1) < Word(i)
        /\ \A j \in 1..(NEnv - 1) : Word(NArgs + 2 + j) < Word(NArgs + 1 + j)
        /\ (options.command_line = <<(<<120>>)>>
               /\ options.environment_vars = <<(<<65, 61, 49>>)>>)
             => /\ SP = 1310676
                /\ <<Word(0), Word(1), Word(2), Word(3), Word(4), Word(5), Word(6)>>
                     = <<2, 1310706, 1310704, 0, 1310716, 0, EXIT_SENTINEL>>
                /\ ReadBytes(mem, 1310704, 16)
                     = <<120, 0, 46, 47, 112, 114, 111, 103, 114, 97, 109, 0,
                         65, 61, 49, 0>>

C4_Witness ==
    /\ Mimic
    /\ variant = "Linux_x86_32"
    /\ options.command_line = <<(<<120>>)>>
    /\ options.environment_vars = <<(<<65, 61, 49>>)>>
    /\ Word(0) = 2

(* C5: on every Linux variant with mimicry, for N argument and M            *)
(* environment strings of any lengths (empty ones too): the count word is   *)
(* N, the argument vector has exactly N non-null entries then a null word,  *)
(* the environment vector exactly M non-null entries then a null word.      *)
C5_VectorCounts ==
    Mimic =>
        /\ NArgs = 1 + Len(options.command_line)
        /\ Word(0) = NArgs
        /\ \A i \in 1..NArgs : Word(i) # 0
        /\ Word(NArgs + 1) = 0
        /\ \A j \in 1..NEnv : Word(NArgs + 1 + j) # 0
        /\ Word(NArgs + NEnv + 2) = 0

C5_Witness ==
    /\ Mimic
    /\ variant = "Linux_aarch64l"
    /\ options.command_line = <<(<<>>)>>
    /\ options.environment_vars = <<(<<>>), <<65, 61, 49>>>>
    /\ Word(0) = 2
    /\ Word(5) # 0

(* C6: every mimicry string reads back from its recorded pointer as the     *)
(* string plus one NUL once the bootstrap is complete; the pointer is the   *)
(* address of its first byte, the stack pointer is decremented before each  *)
(* write, no later string or pushed word overlaps an earlier string.        *)
StringRecords ==
    [j \in 1..Len(ptrs.env) |-> [p |-> ptrs.env[j], str |-> EnvStrings[j]]]
        \o [i \in 1..Len(ptrs.argv) |-> [p |-> ptrs.argv[i], str |-> ArgStrings[i]]]

Extent(r) == r.p..(r.p + Len(r.str))

C6_StringRoundTrip ==
    Mimic =>
        /\ Len(ptrs.env) = NEnv
        /\ Len(ptrs.argv) = NArgs
        /\ \A k \in DOMAIN StringRecords : PointsTo(StringRecords[k].p, StringRecords[k].str)
        /\ \A k \in DOMAIN StringRecords :
              StringRecords[k].p + Len(StringRecords[k].str) + 1
                  = (IF k = 1 THEN Top ELSE StringRecords[k - 1].p)
        /\ \A k, l \in DOMAIN StringRecords :
              k # l => Extent(StringRecords[k]) \cap Extent(StringRecords[l]) = {}
        /\ \A k \in DOMAIN StringRecords :
              Extent(StringRecords[k])
                  \cap (SP..(SP + WordSize * Len(pushed) - 1)) = {}

C6_Witness ==
    /\ Mimic
    /\ Len(StringRecords) = 4
    /\ PointsTo(ptrs.env[1], <<65, 61, 49>>)
    /\ PointsTo(ptrs.argv[2], <<120>>)

(* C7: Windows x86-32 pushes exactly four 4-byte slots, three dummy words   *)
(* and the sentinel; the sentinel is the top-of-stack word, SP is 16 bytes  *)
(* below its initial value, a halt breakpoint is bound at 0x1337beef.       *)
C7_Win32Frame ==
    (Ready /\ variant = "Win_x86_32") =>
        /\ Len(pushed) = 4
        /\ \A i \in DOMAIN pushed : pushed[i].w = 4
        /\ Word(0) = EXIT_SENTINEL
        /\ <<Word(1), Word(2), Word(3)>> = <<0, 1, 2>>
        /\ SP = Top - 16
        /\ SentinelBound
        /\ EXIT_SENTINEL
             = ParseInt(<<"0", "x", "1", "3", "3", "7", "b", "e", "e", "f">>)

C7_Witness ==
    /\ Ready
    /\ variant = "Win_x86_32"
    /\ ReadWord(mem, SP, 4) = EXIT_SENTINEL
    /\ DOMAIN mem = (Top - 16)..(Top - 1)

(* C8 as stated: Windows x86-64 holds the sentinel in one 8-byte slot with  *)
(* the four reserved 8-byte slots below it, at lower addresses, 40 bytes    *)
(* in all.                                                                  *)
C8_SentinelAboveShadow ==
    (Ready /\ variant = "Win_x86_64") =>
        /\ SP = Top - 40
        /\ ReadWord(mem, Top - 8, 8) = EXIT_SENTINEL
        /\ \A i \in 0..3 : Word(i) = 0

(* C8 amended: Windows x86-64 reserves four 8-byte zero slots first and     *)
(* pushes the sentinel last, so the sentinel is the top-of-stack slot and   *)
(* the four reserved slots lie above it, at higher addresses; 40 bytes in   *)
(* all.                                                                     *)
C8_SentinelBelowShadow ==
    (Ready /\ variant = "Win_x86_64") =>
        /\ Len(pushed) = 5
        /\ \A i \in DOMAIN pushed : pushed[i].w = 8
        /\ SP = Top - 40
        /\ Word(0) = EXIT_SENTINEL
        /\ \A i \in 1..4 : Word(i) = 0
        /\ pushed[5].v = EXIT_SENTINEL
        /\ SentinelBound

C8_Witness ==
    /\ Ready
    /\ variant = "Win_x86_64"
    /\ ReadWord(mem, SP, 8) = EXIT_SENTINEL
    /\ ReadWord(mem, SP + 8, 8) = 0
    /\ DOMAIN mem = (Top - 40)..(Top - 1)

(* C9 as stated: Linux x86-64 with mimicry has the argc/argv/envp shape in  *)
(* 8-byte slots and holds the sentinel in the link/return register, with no *)
(* stack slot consumed for it.                                              *)
C9_SentinelInLinkRegister ==
    (Mimic /\ variant = "Linux_x86_64") =>
        /\ VectorShape
        /\ LR = EXIT_SENTINEL
        /\ EXIT_SENTINEL \notin PushedValues

(* C9 amended: Linux x86-64 with mimicry has the argc/argv/envp shape of    *)
(* the 32-bit case in 8-byte slots, and the sentinel is pushed as a return  *)
(* address in an 8-byte stack slot just above the environment vector's null *)
(* word, as in the 32-bit case; no link register is set.                    *)
C9_Linux64MimicLayout ==
    (Mimic /\ variant = "Linux_x86_64") =>
        /\ Len(pushed) = NArgs + NEnv + 4
        /\ \A i \in DOMAIN pushed : pushed[i].w = 8
        /\ VectorShape
        /\ Word(NArgs + NEnv + 3) = EXIT_SENTINEL
        /\ pushed[1].v = EXIT_SENTINEL
        /\ SP + 8 * (NArgs + NEnv + 4) = Word(NArgs)
        /\ LR # EXIT_SENTINEL
        /\ SentinelBound

C9_Witness ==
    /\ Mimic
    /\ variant = "Linux_x86_64"
    /\ options.command_line = <<(<<120>>)>>
    /\ options.environment_vars = <<(<<65, 61, 49>>)>>
    /\ ReadWord(mem, SP, 8) = 2
    /\ ReadWord(mem, SP + 48, 8) = EXIT_SENTINEL

(* C10: on every ARM-family variant LR is the sentinel after bootstrap, a   *)
(* halt breakpoint is bound there and no stack word holds the sentinel:     *)
(* with mimicry the stack holds only argc, argv, null, envp, null in the    *)
(* variant's slot width; without mimicry, and always on the raw-binary      *)
(* variants, the stack pointer keeps its initial value.                     *)
ArmFamily ==
    {"Linux_arml", "Linux_aarch64l", "Linux_armb_str", "Linux_arml_str"}

C10_ArmLinkRegister ==
    (Ready /\ variant \in ArmFamily) =>
        /\ LR = EXIT_SENTINEL
        /\ SentinelBound
        /\ EXIT_SENTINEL \notin PushedValues
        /\ \A i \in 0..(Len(pushed) - 1) : Word(i) # EXIT_SENTINEL
        /\ IF Mimic
           THEN /\ Len(pushed) = NArgs + NEnv + 3
                /\ \A i \in DOMAIN pushed : pushed[i].w = WordSize
                /\ WordSize = (IF variant = "Linux_arml" THEN 4 ELSE 8)
                /\ VectorShape
                /\ SP + WordSize * (NArgs + NEnv + 3) = Word(NArgs)
           ELSE /\ SP = Top
                /\ pushed = <<>>
                /\ mem = <<>>

C10_Witness ==
    /\ Ready
    /\ variant = "Linux_arml"
    /\ options.mimic_env
    /\ options.command_line = <<(<<120>>)>>
    /\ options.environment_vars = <<(<<65, 61, 49>>)>>
    /\ LR = EXIT_SENTINEL
    /\ ReadWord(mem, SP, 4) = 2
    /\ SP = Top - 16 - 24

(* C11: with mimicry off the Linux x86-32 / x86-64 bootstrap writes exactly *)
(* one word, the sentinel (4 / 8 bytes), and no string, pointer vector or   *)
(* count word whatever the command-line and environment vectors are; a      *)
(* continuous run that reaches the sentinel halts there.                    *)
LinuxX86 == {"Linux_x86_32", "Linux_x86_64"}

C11_NoMimicSingleWord ==
    (Ready /\ variant \in LinuxX86 /\ ~options.mimic_env) =>
        /\ pushed = <<[w |-> WordSize, v |-> EXIT_SENTINEL]>>
        /\ WordSize = (IF variant = "Linux_x86_32" THEN 4 ELSE 8)
        /\ SP = Top - WordSize
        /\ DOMAIN mem = SP..(Top - 1)
        /\ Word(0) = EXIT_SENTINEL
        /\ ptrs = [env |-> <<>>, argv |-> <<>>]
        /\ SentinelBound
        /\ (last.op = "run" /\ last.path = "continuous" /\ last.err = "none"
               /\ pc = EXIT_SENTINEL) => ~run

C11_Witness ==
    /\ Ready
    /\ variant = "Linux_x86_64"
    /\ ~options.mimic_env
    /\ options.command_line # <<>>
    /\ Len(options.environment_vars) = 2
    /\ Len(pushed) = 1
    /\ last.op = "run"
    /\ last.start = 4194304
    /\ pc = EXIT_SENTINEL
    /\ ~run

(* the bytes the bootstrap takes from the stack: one slot per word push    *)
(* and, under mimicry, each string with its terminating NUL                 *)
RECURSIVE StringBytes(_)
StringBytes(strs) ==
    IF strs = <<>> THEN 0 ELSE Len(Head(strs)) + 1 + StringBytes(Tail(strs))

BootBytes ==
    BootPushes * WordSize
        + (IF Mimic THEN StringBytes(ArgStrings) + StringBytes(EnvStrings) ELSE 0)

(* C12: on every variant a run() that directly follows the constructor and *)
(* starts at the program-exit sentinel executes no guest instruction and    *)
(* leaves the stack pointer where the bootstrap put it, the stack top less  *)
(* the slots pushed and the string bytes written; on the continuous path    *)
(* the engine is halted at the sentinel.                                    *)
C12_RunAtSentinel ==
    (Ready /\ ops = 1 /\ last.op = "run" /\ last.start = EXIT_SENTINEL) =>
        /\ last.instrs = 0
        /\ last.err = "none"
        /\ pc = EXIT_SENTINEL
        /\ SP = Top - BootBytes
        /\ last.path = "continuous" => ~run

C12_Witness ==
    /\ Ready
    /\ ops = 1
    /\ variant = "Linux_aarch64l"
    /\ options.mimic_env
    /\ options.command_line = <<<<120>>>>
    /\ Len(options.environment_vars) = 1
    /\ last.op = "run"
    /\ last.start = EXIT_SENTINEL
    /\ last.instrs = 0
    /\ ~run
    /\ SP = Top - 48 - 16

(* the engine as a breakpoint callback finds it *)
Engine ==
    [pc |-> pc, run |-> TRUE, sp |-> SP, lr |-> LR, mem |-> mem,
     bps |-> breakpoints]

Sentinels == {EXIT_SENTINEL, CALL_FINNISH_ADDR}

(* C13: the program-exit and the function-return sentinel are bound to the  *)
(* same halt action; every firing, first or later, clears the run flag and  *)
(* returns the stop value, so the engine stays at the sentinel; the action  *)
(* changes nothing else of the engine.                                      *)
C13_HaltAction ==
    /\ Ready =>
         /\ \A b \in breakpoints :
                b.addr \in Sentinels /\ b.cb = "code_sentinelle"
         /\ SentinelBound
         /\ Count(bpLog, CALL_FINNISH_ADDR) > 0 =>
                [addr |-> CALL_FINNISH_ADDR, cb |-> "code_sentinelle"]
                    \in breakpoints
         /\ code_sentinelle(Engine).jitter = [Engine EXCEPT !.run = FALSE]
         /\ code_sentinelle(Engine).ret = FALSE
    /\ last.fired =>
         /\ ~run
         /\ ~last.resumes
         /\ pc \in Sentinels
         /\ fires >= 1

C13_Witness ==
    /\ Ready
    /\ fires = 2
    /\ last.op = "call"
    /\ last.fired
    /\ pc = CALL_FINNISH_ADDR
    /\ ~run
    /\ Cardinality(breakpoints) = 2

(* a call() whose arguments bound to a callable and an address *)
Called == last.op = "call" /\ last.err # "TypeError"

(* C14: every call(prepare_cb, addr, args...) issues, in this order,        *)
(* init_run(addr), the registration of the function-return sentinel with    *)
(* the halt action, prepare_cb(sentinel, args...) with the caller's         *)
(* arguments unchanged and in order, and continue_run; it always takes the  *)
(* continuous path whatever debugging, gdbserver and address are.           *)
C14_CallOrder ==
    Called =>
        /\ trace = <<"jitter.init_run", "add_breakpoint", "prepare_cb",
                     "jitter.continue_run">>
        /\ last.start = last.arg
        /\ bpLog[Len(bpLog)] = CALL_FINNISH_ADDR
        /\ [addr |-> CALL_FINNISH_ADDR, cb |-> "code_sentinelle"]
               \in breakpoints
        /\ last.cbargs = <<CALL_FINNISH_ADDR>> \o last.args
        /\ last.path = "continuous"

C14_Witness ==
    /\ Called
    /\ last.form = "custom_cb"
    /\ last.args = <<1, 2>>
    /\ last.cbargs = <<CALL_FINNISH_ADDR, 1, 2>>
    /\ options.debugging
    /\ options.gdbserver = 1234
    /\ options.address = <<"0", "x", "1", "f">>
    /\ last.start = 4198400
    /\ RunPath(options) = "remote"

HaltBinding(a) == [addr |-> a, cb |-> "code_sentinelle"]

BindingsAt(a) == {b \in breakpoints : b.addr = a}

(* C16 as claimed: a sentinel binding lives for one run or invocation only, *)
(* so once a run() has followed a call() the function-return binding of     *)
(* that call is gone, and no sentinel has more than one binding.            *)
C16_BindingPerInvocation ==
    Ready =>
        /\ Cardinality(BindingsAt(EXIT_SENTINEL)) <= 1
        /\ Cardinality(BindingsAt(CALL_FINNISH_ADDR)) <= 1
        /\ last.op = "run" => BindingsAt(CALL_FINNISH_ADDR) = {}

(* C16: no sentinel binding is ever removed: the program-exit binding of    *)
(* the constructor and the function-return binding of the first call() stay *)
(* in the breakpoint table through every later run() and call(); call()     *)
(* registers the function-return binding again each time, and the table     *)
(* still holds exactly one halt binding for the program-exit sentinel and   *)
(* at most one for the function-return sentinel.                            *)
C16_BindingsPersist ==
    Ready =>
        /\ BindingsAt(EXIT_SENTINEL) = {HaltBinding(EXIT_SENTINEL)}
        /\ BindingsAt(CALL_FINNISH_ADDR) =
               (IF Count(bpLog, CALL_FINNISH_ADDR) > 0
                THEN {HaltBinding(CALL_FINNISH_ADDR)} ELSE {})
        /\ Cardinality(breakpoints) <= 2
        /\ Len(callLog) <= Count(bpLog, CALL_FINNISH_ADDR)
        /\ Len(bpLog) = 1 + Count(bpLog, CALL_FINNISH_ADDR)

C16_Witness ==
    /\ Ready
    /\ ops = 2
    /\ Count(bpLog, CALL_FINNISH_ADDR) = 2
    /\ Len(callLog) = 2
    /\ BindingsAt(CALL_FINNISH_ADDR) = {HaltBinding(CALL_FINNISH_ADDR)}
    /\ Cardinality(breakpoints) = 2

(* C17: on every variant call(addr, args...) without a prepare_cb keyword   *)
(* prepares the call with the variant's default, the stdcall preparer on    *)
(* the Windows classes and the System-V preparer on the others, and         *)
(* call(addr, args..., prepare_cb=f) prepares that one call with f.         *)
(* Violated by the raw-binary ARM classes, which inherit                    *)
(* Sandbox.call(prepare_cb, addr, *args) and have no default.               *)
C17_DefaultPreparer ==
    /\ (last.op = "call" /\ last.form = "default") =>
          /\ last.err # "TypeError"
          /\ last.cb = (IF OSOf(variant) = "Win" THEN "func_prepare_stdcall"
                        ELSE "func_prepare_systemv")
          /\ last.start = last.arg
    /\ (last.op = "call" /\ last.form = "custom_cb") =>
          /\ last.err # "TypeError"
          /\ last.cb = "custom_cb"
          /\ last.start = last.arg

ArchEvents == {"Machine", "jitter", "init_stack"}
OSEvents ==
    {"vm_load_pe", "preload_pe", "vm_load_elf", "preload_elf",
     "add_memory_page", "add_lib_handler"}
ToggleEvents ==
    {"jit.log_mn", "jit.log_regs", "log_func.setLevel", "jit.log_newbloc"}

(* the stage of the constructor an event belongs to *)
Stage(e) ==
    CASE e \in ArchEvents -> 1
      [] e \in OSEvents -> 2
      [] e \in ToggleEvents -> 3
      [] OTHER -> 4

Events == {trace[i] : i \in DOMAIN trace}

(* C18: in every constructor the architecture initialiser (engine created,  *)
(* stack initialised) completes before the OS-loader initialiser starts,    *)
(* each runs exactly once, and the logging toggles (singlestep, dumpblocs,  *)
(* function-call logging) are applied as configured after both and before   *)
(* any stack write, register preset or breakpoint of the ABI bootstrap.     *)
C18_ConstructionOrder ==
    /\ last.op = "init" =>
          /\ \A i, j \in DOMAIN trace :
                i < j => Stage(trace[i]) <= Stage(trace[j])
          /\ \A e \in ArchEvents : Count(trace, e) = 1
          /\ inits = [arch |-> 1, os |-> 1]
          /\ Ready =>
                /\ Count(trace, "add_lib_handler") = 1
                /\ Count(trace, "add_breakpoint") = 1
                /\ "jit.log_mn" \in Events <=> options.singlestep
                /\ "jit.log_regs" \in Events <=> options.singlestep
                /\ "jit.log_newbloc" \in Events <=> options.dumpblocs
                /\ "log_func.setLevel" \in Events
                      <=> ~options.quiet_function_calls
                /\ \A e \in ToggleEvents : Count(trace, e) <= 1
          /\ ~Ready => (Events \subseteq ArchEvents /\ logging = LogDefault)
    /\ Ready =>
          logging = [log_mn |-> options.singlestep,
                     log_regs |-> options.singlestep,
                     log_newbloc |-> options.dumpblocs,
                     log_func |-> ~options.quiet_function_calls]

C18_Witness ==
    /\ Ready
    /\ variant = "Win_x86_32"
    /\ options.singlestep
    /\ options.dumpblocs
    /\ ~options.quiet_function_calls
    /\ trace = <<"Machine", "jitter", "init_stack", "vm_load_pe",
                 "preload_pe", "add_lib_handler", "jit.log_mn",
                 "jit.log_regs", "log_func.setLevel", "jit.log_newbloc",
                 "push", "push", "push", "push", "add_breakpoint">>
    /\ logging.log_mn
    /\ logging.log_newbloc

RawBinary == {"Linux_armb_str", "Linux_arml_str"}

(* C19: the raw-binary classes do not offer mimicry: their parser accepts   *)
(* no mimic-env option, so none can be set, and their constructor writes no *)
(* argument or environment data to the stack whatever the options hold.     *)
(* Violated: OS_Linux_str.update_parser adds --mimic-env.                   *)
C19_NoMimicryForRawBinary ==
    variant \in RawBinary =>
        /\ "mimic_env" \notin ParserOptions(variant)
        /\ ~options.mimic_env
        /\ Ready =>
              /\ pushed = <<>>
              /\ mem = <<>>
              /\ ptrs = [env |-> <<>>, argv |-> <<>>]
              /\ SP = Top

(* C20: the options object is read-only once created: no constructor,      *)
(* run() or call() changes the value or the type of an option, so a second  *)
(* sandbox constructed from the same options object is built like the       *)
(* first. Violated: OS_Linux_str.__init__ stores the parsed load base       *)
(* address back into the options, and the second construction fails on it.  *)
C20_OptionsReadOnly ==
    /\ options.load_base_addr.tag \in {"str", "absent"}
    /\ \E g \in {"run", "log", "mimic", "args"} :
          options \in OptionSpace(variant, g)
    /\ built >= 2 => (Ready /\ last.err = "none")

(* C21: on the raw-binary classes a run() with neither an explicit addr    *)
(* nor an --address override hands the engine a defined start address, the  *)
(* load base of the image, never None. Violated: both run overrides and     *)
(* Sandbox.run leave addr at None, and init_run(None) is called.            *)
C21_RawBinaryStartDefined ==
    (variant \in RawBinary /\ last.op = "run" /\ last.arg = None
        /\ options.address = AddrNone) =>
        /\ last.start # None
        /\ last.start = options.load_base_addr.n
        /\ pc # None

(* the override is set and is not a numeric literal *)
MalformedAddress ==
    options.address # AddrNone /\ ParseInt(options.address) = Bad

MalformedLoadBase ==
    /\ options.load_base_addr.tag = "str"
    /\ ParseInt(options.load_base_addr.s) = Bad

(* a run() that ended in the literal's ValueError *)
RunAborted == last.op = "run" /\ last.err = "ValueError"

(* what a malformed literal leaves behind *)
C22_Aborted ==
    /\ (last.op = "run" /\ last.arg = None /\ MalformedAddress) =>
          /\ RunAborted
          /\ trace = <<>>
          /\ last.path = "none"
          /\ last.start = None
          /\ ~last.fired
          /\ ops = 1 =>
                /\ pc = None /\ ~run
                /\ breakpoints = {HaltBinding(EXIT_SENTINEL)}
                /\ Len(pushed) = BootPushes
                /\ SP = Top - BootBytes
                /\ LR = (IF variant \in ArmFamily THEN EXIT_SENTINEL ELSE 0)
    /\ (phase # "new" /\ MalformedLoadBase) =>
          /\ phase = "failed"
          /\ last.op = "init"
          /\ last.err = "ValueError"
          /\ Events = ArchEvents
          /\ mem = <<>> /\ pushed = <<>> /\ breakpoints = {}
          /\ ops = 0

(* C22: a malformed numeric literal aborts the operation before execution   *)
(* starts. run() with a malformed --address override and no explicit addr   *)
(* raises before a debugger is created and before init_run / continue_run,  *)
(* on every path and every class, and changes no register, stack byte,      *)
(* breakpoint or engine flag; a malformed load_base_addr fails the          *)
(* raw-binary constructor before a memory page is mapped or the library     *)
(* handler registered.                                                      *)
C22_MalformedAborts ==
    /\ []C22_Aborted
    /\ [][RunAborted' =>
            UNCHANGED <<SP, LR, mem, pushed, ptrs, breakpoints, bpLog, pc,
                        run, fires, callLog, logging, options>>]_vars

C22_Witness ==
    /\ Ready
    /\ RunAborted
    /\ MalformedAddress
    /\ options.debugging
    /\ options.gdbserver = 1234
    /\ RunPath(options) = "remote"
    /\ ops = 2
    /\ Len(callLog) = 1
    /\ trace = <<>>
    /\ pc \in Sentinels

----------------------------------------------------------------------------
(* C23: option-set merging when the parser of a sandbox class is built *)

(* the declarations handled so far and all declarations of the class *)
AllDecls == Declarations(variant) \o parser.mixin
DoneDecls == SubSeq(AllDecls, 1, Len(AllDecls) - Len(todo))
HelpFlags == {"-h", "--help"}

(* no option string is declared twice, the parser's own help included *)
NoDuplicate(decls) ==
    /\ \A i, j \in DOMAIN decls : i # j => decls[i].flags \cap decls[j].flags = {}
    /\ \A i \in DOMAIN decls : decls[i].flags \cap HelpFlags = {}

FlagsOf(decls) == UNION {decls[i].flags : i \in DOMAIN decls}
DestsOf(decls) == {decls[i].dest : i \in DOMAIN decls}

ParserBuilt == todo = <<>> /\ parser.err = "none"
ParserFailed == parser.err = "ArgumentError"

(* what the construction does under the given conflict handler *)
ConflictChecked ==
    /\ ParserFailed =>
          /\ parser.handler = "error"
          /\ todo # <<>>
          /\ Head(todo).flags \cap ParserFlags(parser) # {}
    /\ (parser.handler = "error" /\ ~ParserFailed) => NoDuplicate(DoneDecls)
    /\ (parser.handler = "error" /\ ~NoDuplicate(AllDecls)) => ~ParserBuilt

(* the base parser, the architecture and the OS loader of every class       *)
(* declare pairwise disjoint option strings, so the class's parser is built *)
(* without error and holds exactly their options                            *)
DefinedVariantsDisjoint ==
    /\ \A v \in Variants :
          /\ NoDuplicate(Declarations(v))
          /\ DestsOf(Declarations(v)) = ParserOptions(v)
    /\ parser.mixin = <<>> =>
          /\ ~ParserFailed
          /\ ParserBuilt =>
                /\ ParserFlags(parser) = FlagsOf(AllDecls) \cup HelpFlags
                /\ ParserDests(parser) = ParserOptions(variant) \cup {"help"}
                /\ parser = BuildParser(variant) \/ parser.handler = "resolve"

(* C23 as stated: a flag declared by two contributors makes parser          *)
(* construction fail, whatever arguments the parser was created with, and   *)
(* the ten defined sandbox variants have pairwise disjoint declarations, so *)
(* their parsers are built and expose the union                             *)
C23_TenVariantsConflictChecked ==
    /\ Cardinality(Variants) = 10
    /\ ~NoDuplicate(AllDecls) => ~ParserBuilt
    /\ DefinedVariantsDisjoint

(* C23 amended: under the parser's default conflict handling a flag         *)
(* declared twice ends parser construction with ArgumentError at the        *)
(* clashing add_argument call, and a parser created with the resolve        *)
(* handler is built regardless; there are eight defined sandbox variants,   *)
(* the declarations of the base parser, the architecture and the OS loader  *)
(* of each are pairwise disjoint, and its parser is built without error and *)
(* exposes exactly their union besides the help option                      *)
C23_ParserConflictChecked ==
    /\ Cardinality(Variants) = 8
    /\ ConflictChecked
    /\ parser.handler = "resolve" => ~ParserFailed
    /\ DefinedVariantsDisjoint

(* a further base class declares -s for an x86 sandbox class: construction  *)
(* stopped at that call with every option of the class already declared     *)
C23_Witness ==
    /\ ParserFailed
    /\ variant = "Win_x86_32"
    /\ Len(todo) = 1
    /\ Head(todo).dest = "usesegm"
    /\ ParserDests(parser) = ParserOptions(variant) \cup {"help"}


----------------------------------------------------------------------------
(* C24: the library-call dispatch table of an OS family *)

Family == OSModule(OSOf(variant))

(* the constructions so far that gave a custom method of name n *)
Givers(n) == {i \in 1..built : n \in DOMAIN Custom(i)}
LastGiver(n) == CHOOSE i \in Givers(n) : \A j \in Givers(n) : j <= i

(* the module's table is its defaults with every custom method given so far *)
(* merged in, the latest construction winning for a name given twice        *)
MergedSoFar(table) ==
    /\ DOMAIN table = DOMAIN DefaultMethods \cup {n \in ApiNames : Givers(n) # {}}
    /\ \A n \in DOMAIN table :
          table[n] = IF Givers(n) # {} THEN Custom(LastGiver(n))[n]
                     ELSE DefaultMethods[n]

(* C24: custom methods are merged into the table shared by the OS family,   *)
(* override defaults of the same name and are never removed, so the table   *)
(* registered for every sandbox constructed so far, the first as well as    *)
(* the second, is that one table: it holds every custom method given to an  *)
(* earlier sandbox unless a later one gave the same name, and the later     *)
(* one's overrides                                                          *)
C24_SharedMethodTable ==
    /\ MergedSoFar(methods[Family])
    /\ \A md \in OSModules \ {Family} : methods[md] = DefaultMethods
    /\ \A k \in DOMAIN handlers :
          /\ handlers[k].ref = Family
          /\ TableOf(handlers[k]) = methods[Family]
          /\ MergedSoFar(TableOf(handlers[k]))

(* two sandboxes were constructed: the first gave a new method, the second  *)
(* replaced a default; both registered tables hold both                     *)
C24_Witness ==
    /\ Ready
    /\ built = 2
    /\ Len(handlers) = 2
    /\ DOMAIN Custom(1) = {"hook"}
    /\ DOMAIN Custom(2) = {"stub"}
    /\ \A k \in 1..2 :
          /\ TableOf(handlers[k])["hook"] = "impl_a"
          /\ TableOf(handlers[k])["stub"] = "impl_b"


====
